---------------------------- MODULE Spec2Model ----------------------------
(***************************************************************************)
(* The Netflix dashboard script (src/netflix_dashboard/app.py) as a state  *)
(* machine.  One run of the script is one action: it loads the dataset     *)
(* through the st.cache_data cache, derives the widget options, reads the  *)
(* widget values, filters the dataset and computes the KPI row and the     *)
(* chart tables.                                                           *)
(*                                                                         *)
(* Text is modelled as a sequence of units: a unit is a word (characters   *)
(* other than comma and space), a comma "," or a space " ".  A missing     *)
(* cell (pandas NaN) is the value NaN.  The pandas and Streamlit calls are *)
(* modelled by what they compute on these values.                          *)
(***************************************************************************)
EXTENDS Integers, Sequences, FiniteSets, TLC

(***************************************************************************)
(* Bounds of the model.                                                    *)
(***************************************************************************)
\* rows of netflix_titles.csv
MaxRows == 2
\* country tokens of the widest catalogue row
WideCountries == 31
\* genre tokens of the widest catalogue row
WideGenres == 13

(***************************************************************************)
(* Numbers written in the script.                                          *)
(***************************************************************************)
DefaultStartYear == 2015
CountryOptionCount == 30
TopCountryCount == 10
TopGenreCount == 12

(***************************************************************************)
(* Text, missing values and generic sequence helpers.                      *)
(***************************************************************************)
NaN == <<"NaN">>
NaT == [year |-> 0, month |-> 0, day |-> 0]
Unknown == <<"Unknown">>
Movie == <<"Movie">>
TVShow == <<"TV", " ", "Show">>
Sep == <<",", " ">>

Range(s) == {s[i] : i \in 1..Len(s)}

Max2(a, b) == IF a >= b THEN a ELSE b
Min2(a, b) == IF a <= b THEN a ELSE b
SetMax(S) == CHOOSE x \in S : \A y \in S : y <= x
SetMin(S) == CHOOSE x \in S : \A y \in S : x <= y

\* seq[:n]
Head_n(s, n) == SubSeq(s, 1, Min2(n, Len(s)))

RECURSIVE Flatten(_)
Flatten(ss) == IF ss = <<>> THEN <<>> ELSE Head(ss) \o Flatten(Tail(ss))

\* the numbers of 1..n that are in S, in ascending order
Ascending(n, S) == SelectSeq([i \in 1..n |-> i], LAMBDA i : i \in S)

\* the text holding the tokens separated by ", " (tokens of one unit each)
Join(tokens) ==
    [i \in 1..(3 * Len(tokens) - 2) |->
        IF i % 3 = 1 THEN tokens[(i + 2) \div 3][1]
        ELSE IF i % 3 = 2 THEN Sep[1] ELSE Sep[2]]

(***************************************************************************)
(* str.split(", "): cut at every occurrence of the two-unit separator; a   *)
(* text without separator is one token.  (Two occurrences of ", " cannot   *)
(* overlap, so every occurrence is a cut.)                                 *)
(***************************************************************************)
Split(s) ==
    LET cuts == Ascending(Len(s), {i \in 1..(Len(s) - 1) :
                                      s[i] = Sep[1] /\ s[i + 1] = Sep[2]})
    IN  [k \in 1..(Len(cuts) + 1) |->
            SubSeq(s,
                   IF k = 1 THEN 1 ELSE cuts[k - 1] + 2,
                   IF k = Len(cuts) + 1 THEN Len(s) ELSE cuts[k] - 1)]

(***************************************************************************)
(* pd.to_datetime(..., errors="coerce") on the "Month D, YYYY" texts of    *)
(* the date_added column: a calendar date, or NaT when the cell is missing *)
(* or is not such a date.                                                  *)
(***************************************************************************)
MonthNumber ==
    [January |-> 1, February |-> 2, March |-> 3, April |-> 4, May |-> 5,
     June |-> 6, July |-> 7, August |-> 8, September |-> 9, October |-> 10,
     November |-> 11, December |-> 12]
DayNumbers == 1..31
YearNumbers == 2008..2021
IsNumeral(w, S) == \E n \in S : ToString(n) = w
ParseInt(w, S) == CHOOSE n \in S : ToString(n) = w
IsLeap(y) == (y % 4 = 0 /\ y % 100 # 0) \/ y % 400 = 0
DaysIn(m, y) ==
    IF m = 2 THEN (IF IsLeap(y) THEN 29 ELSE 28)
    ELSE IF m \in {4, 6, 9, 11} THEN 30 ELSE 31
ToDatetime(s) ==
    IF s = NaN THEN NaT
    ELSE IF /\ Len(s) = 6
            /\ s[1] \in DOMAIN MonthNumber
            /\ s[2] = " "
            /\ IsNumeral(s[3], DayNumbers)
            /\ s[4] = ","
            /\ s[5] = " "
            /\ IsNumeral(s[6], YearNumbers)
            /\ ParseInt(s[3], DayNumbers)
                   <= DaysIn(MonthNumber[s[1]], ParseInt(s[6], YearNumbers))
         THEN [year |-> ParseInt(s[6], YearNumbers),
               month |-> MonthNumber[s[1]],
               day |-> ParseInt(s[3], DayNumbers)]
         ELSE NaT

\* Series.fillna(value)
FillNa(v, value) == IF v = NaN THEN value ELSE v

(***************************************************************************)
(* The rows netflix_titles.csv may hold.                                   *)
(***************************************************************************)
Land(i) == <<"Land" \o ToString(i)>>
Genre(i) == <<"Genre" \o ToString(i)>>
WideCountry == Join([i \in 1..WideCountries |-> Land(i)])
WideListedIn == Join([i \in 1..WideGenres |-> Genre(i)])
DateText(month, day, year) == <<month, " ", day, ",", " ", year>>

RawRow(t, d, c, l, r) ==
    [type |-> t, date_added |-> d, country |-> c, listed_in |-> l, rating |-> r]

RawRows ==
    { RawRow(Movie, DateText("January", "1", "2014"),
             Join(<< <<"India">>, <<"Canada">> >>), <<"Drama">>, <<"PG">>),
      RawRow(TVShow, DateText("September", "25", "2015"),
             NaN, NaN, <<"TV-MA">>),
      RawRow(Movie, DateText("February", "29", "2016"),
             WideCountry, WideListedIn, NaN),
      RawRow(TVShow, DateText("March", "3", "2016"),
             Join(<< Land(WideCountries), <<"Canada">>, <<"Canada">> >>),
             Join(<< Genre(WideGenres), <<"Drama">>, Genre(WideGenres) >>),
             <<"TV-MA">>),
      RawRow(Movie, DateText("February", "30", "2016"),
             <<"United", " ", "States", ",", "Canada">>, <<"Drama">>, <<"PG">>),
      RawRow(TVShow, NaN, <<"India">>, <<"Comedy">>, <<"TV-MA">>),
      RawRow(NaN, DateText("September", "25", "2015"),
             <<"Canada">>, <<"Comedy">>, <<"PG">>) }

\* the tables of at most n distinct rows of S, in every order
RECURSIVE TablesUpTo(_, _)
TablesUpTo(S, n) ==
    IF n = 0 THEN {<<>>}
    ELSE LET shorter == TablesUpTo(S, n - 1)
         IN  shorter \cup {Append(t, x) : t \in shorter, x \in S}
Files == {t \in TablesUpTo(RawRows, MaxRows) :
             \A i, j \in 1..Len(t) : i # j => t[i] # t[j]}
\* the countries the user clicks in the country multiselect
Pickable == {<<"India">>, <<"Canada">>}

(***************************************************************************)
(* load_data, lines 13-28.                                                 *)
(***************************************************************************)
\* pd.read_csv: the table of the file, rows labelled 0, 1, 2, ...
ReadCsv(table) ==
    [i \in 1..Len(table) |->
        [index |-> i - 1, type |-> table[i].type,
         date_added |-> table[i].date_added, country |-> table[i].country,
         listed_in |-> table[i].listed_in, rating |-> table[i].rating]]

\* mutant: rows without a date are not dropped
KeepsEveryRow(r) == TRUE
HasDate(r) == r.date_added # NaT
CleanRow(r) ==
    [index |-> r.index, type |-> r.type, date_added |-> r.date_added,
     year_added |-> r.date_added.year,
     country |-> FillNa(r.country, Unknown),
     listed_in |-> FillNa(r.listed_in, Unknown),
     rating |-> FillNa(r.rating, Unknown)]
LoadDataBody(table) ==
    LET raw == ReadCsv(table)
        parsed == [i \in 1..Len(raw) |->
                      [raw[i] EXCEPT !.date_added = ToDatetime(@)]]
        kept == SelectSeq(parsed, HasDate)
    IN  [i \in 1..Len(kept) |-> CleanRow(kept[i])]

(***************************************************************************)
(* Series.value_counts(): one entry per distinct value, in descending      *)
(* order of count; values of equal count keep the order of their first     *)
(* appearance.                                                             *)
(***************************************************************************)
\* the distinct values of s in order of first appearance
Unique(s) ==
    LET firsts == Ascending(Len(s), {i \in 1..Len(s) :
                                        \A j \in 1..(i - 1) : s[j] # s[i]})
    IN  [k \in 1..Len(firsts) |-> s[firsts[k]]]

CountOf(s, v) == Cardinality({i \in 1..Len(s) : s[i] = v})

\* a stable sort: the entries in ascending order of Key, entries of equal
\* key in their order in the input
RECURSIVE SortByKeys(_, _)
SortByKeys(keyed, keys) ==
    IF keys = {} THEN <<>>
    ELSE LET least == SetMin(keys)
         IN  SelectSeq(keyed, LAMBDA e : e.key = least)
                 \o SortByKeys(keyed, keys \ {least})
StableSort(keyed) ==
    LET sorted == SortByKeys(keyed, {keyed[i].key : i \in 1..Len(keyed)})
    IN  [i \in 1..Len(sorted) |-> sorted[i].item]

\* mutant: the counts are left in order of first appearance
KeepOrder(entries) == entries
SortByCountDesc(entries) ==
    StableSort([i \in 1..Len(entries) |->
                   [key |-> 0 - entries[i].count, item |-> entries[i]]])
ValueCounts(s) ==
    LET keys == Unique(s)
    IN  SortByCountDesc([k \in 1..Len(keys) |->
                            [value |-> keys[k], count |-> CountOf(s, keys[k])]])
\* Series.sort_index() of a value_counts() result with integer values
SortIndex(entries) ==
    StableSort([i \in 1..Len(entries) |->
                   [key |-> entries[i].value, item |-> entries[i]]])
\* DataFrame.sort_values(<count column>, ascending=True)
SortByCountAsc(entries) ==
    StableSort([i \in 1..Len(entries) |->
                   [key |-> entries[i].count, item |-> entries[i]]])
\* Series.drop(index=[label], errors="ignore")
DropIndex(entries, label) == SelectSeq(entries, LAMBDA e : e.value # label)
Values(entries) == [i \in 1..Len(entries) |-> entries[i].value]

\* column.str.split(", ").explode(): the tokens of every cell, row by row
ExplodeColumn(cells) == Flatten([i \in 1..Len(cells) |-> Split(cells[i])])
\* the columns of a table
Types(rows) == [i \in 1..Len(rows) |-> rows[i].type]
Years(rows) == [i \in 1..Len(rows) |-> rows[i].year_added]
Countries(rows) == [i \in 1..Len(rows) |-> rows[i].country]
ListedIns(rows) == [i \in 1..Len(rows) |-> rows[i].listed_in]
Ratings(rows) == [i \in 1..Len(rows) |-> rows[i].rating]

(***************************************************************************)
(* Sidebar, lines 35-64.                                                   *)
(***************************************************************************)
\* df["type"].dropna().unique(), the options and the default of the content
\* type multiselect (their order on the page is not modelled)
TypeOptions(d) == {d[i].type : i \in 1..Len(d)} \ {NaN}
MinYear(d) == SetMin({d[i].year_added : i \in 1..Len(d)})
MaxYear(d) == SetMax({d[i].year_added : i \in 1..Len(d)})
\* the value= argument of the year slider
SliderDefault(d) == <<Max2(MinYear(d), DefaultStartYear), MaxYear(d)>>
\* st.slider keeps its range value ordered and widens min_value/max_value
\* to hold it
Slider(min_value, max_value, value) ==
    LET start == Min2(value[1], value[2])
        end == Max2(value[1], value[2])
    IN  [min_value |-> Min2(start, min_value),
         max_value |-> Max2(end, max_value),
         value |-> <<start, end>>]
YearSlider(d) == Slider(MinYear(d), MaxYear(d), SliderDefault(d))
CountryCounts(d) == ValueCounts(ExplodeColumn(Countries(d)))
\* mutant: "Unknown" is appended without looking for it
TopCountryListAlwaysAppends(d) ==
    Append(Values(Head_n(CountryCounts(d), CountryOptionCount)), Unknown)
TopCountryList(d) ==
    LET top == Values(Head_n(CountryCounts(d), CountryOptionCount))
    IN  IF Unknown \in Range(top) THEN top ELSE Append(top, Unknown)

(***************************************************************************)
(* Apply filters, lines 66-76.                                             *)
(***************************************************************************)
IsIn(v, values) == v \in values
\* mutants: the bounds are exclusive; the bounds are put in order first
BetweenExclusive(x, left, right) == left < x /\ x < right
BetweenOrdered(x, left, right) ==
    Min2(left, right) <= x /\ x <= Max2(left, right)
Between(x, left, right) == left <= x /\ x <= right
\* mutant: an empty content type selection filters nothing, as an empty
\* country selection does
TypeYearFilterEmptyMeansAll(d, content_type, year_range) ==
    SelectSeq(d, LAMBDA r : /\ content_type = {} \/ r.type \in content_type
                            /\ year_range[1] <= r.year_added
                            /\ r.year_added <= year_range[2])
TypeYearFilter(d, content_type, year_range) ==
    SelectSeq(d, LAMBDA r : /\ IsIn(r.type, content_type)
                            /\ Between(r.year_added, year_range[1], year_range[2]))
\* mutant: a country named twice in a cell gives one row
ExplodeRowDistinct(r) ==
    LET tokens == Unique(Split(r.country))
    IN  [k \in 1..Len(tokens) |->
            [index |-> r.index, type |-> r.type, date_added |-> r.date_added,
             year_added |-> r.year_added, country |-> r.country,
             listed_in |-> r.listed_in, rating |-> r.rating,
             country_exploded |-> tokens[k]]]
ExplodeRow(r) ==
    LET tokens == Split(r.country)
    IN  [k \in 1..Len(tokens) |->
            [index |-> r.index, type |-> r.type, date_added |-> r.date_added,
             year_added |-> r.year_added, country |-> r.country,
             listed_in |-> r.listed_in, rating |-> r.rating,
             country_exploded |-> tokens[k]]]
ExplodeCountry(rows) == Flatten([i \in 1..Len(rows) |-> ExplodeRow(rows[i])])
CountryFilter(rows, country_selected) ==
    IF country_selected # {}
    THEN SelectSeq(ExplodeCountry(rows),
                   LAMBDA r : IsIn(r.country_exploded, country_selected))
    ELSE rows
FilteredDf(d, content_type, year_range, country_selected) ==
    CountryFilter(TypeYearFilter(d, content_type, year_range), country_selected)

(***************************************************************************)
(* KPI row and chart tables, lines 78-147.                                 *)
(***************************************************************************)
CountType(rows, t) == Cardinality({i \in 1..Len(rows) : rows[i].type = t})
YearsCovered(rows) ==
    IF rows = <<>> THEN <<NaN, NaN>>
    ELSE <<SetMin(Range(Years(rows))), SetMax(Range(Years(rows)))>>
Kpi(rows) ==
    [total |-> Len(rows), movies |-> CountType(rows, Movie),
     tv_shows |-> CountType(rows, TVShow), years |-> YearsCovered(rows)]
TypeCounts(rows) == ValueCounts(Types(rows))
Growth(rows) == SortIndex(ValueCounts(Years(rows)))
TopCountries(rows) ==
    SortByCountAsc(Head_n(DropIndex(ValueCounts(ExplodeColumn(Countries(rows))),
                                    Unknown),
                          TopCountryCount))
TopGenres(rows) ==
    SortByCountAsc(Head_n(DropIndex(ValueCounts(ExplodeColumn(ListedIns(rows))),
                                    Unknown),
                          TopGenreCount))
\* mutant: the ratings are counted in order of first appearance
RatingCountsFirstSeen(rows) ==
    LET ratings == Ratings(rows)
        keys == Unique(ratings)
    IN  [k \in 1..Len(keys) |->
            [value |-> keys[k], count |-> CountOf(ratings, keys[k])]]
RatingCounts(rows) == ValueCounts(Ratings(rows))

(***************************************************************************)
(* State.                                                                  *)
(*   file             the table netflix_titles.csv holds on disk           *)
(*   cache            the st.cache_data store of load_data: <<>> or <<df>> *)
(*   reads            executions of pd.read_csv so far                     *)
(*   read_table       the table pd.read_csv returned                       *)
(*   disk_at_load     the table on disk at the latest call of load_data    *)
(*   status           "init" before the first run, then how the latest run *)
(*                    ended: "ok", "ValueError" (line 41, int of NaN) or   *)
(*                    "StreamlitAPIException" (line 43)                    *)
(*   df .. rating_counts   the script's variables of the same names        *)
(***************************************************************************)
VARIABLES file, cache, reads, read_table, disk_at_load, status, df,
          content_type, year_range, country_selected, top_country_list,
          filtered_df, kpi, type_counts, growth, top_countries, top_genres,
          rating_counts

storage == <<file, cache, reads, read_table, disk_at_load>>
widgets == <<content_type, year_range, country_selected>>
views == <<top_country_list, filtered_df, kpi, type_counts, growth,
           top_countries, top_genres, rating_counts>>
vars == <<storage, status, df, widgets, views>>

NoRange == <<0, 0>>
NoKpi == [total |-> 0, movies |-> 0, tv_shows |-> 0, years |-> <<NaN, NaN>>]

\* @st.cache_data on load_data(): the first call runs the body and stores
\* its result, every later call returns the stored result
\* mutant: load_data without the cache
UncachedLoadData(store, disk) ==
    [cache |-> <<LoadDataBody(disk)>>, value |-> LoadDataBody(disk), reads |-> 1]
CachedLoadData(store, disk) ==
    IF store = <<>>
    THEN LET loaded == LoadDataBody(disk)
         IN  [cache |-> <<loaded>>, value |-> loaded, reads |-> 1]
    ELSE [cache |-> store, value |-> store[1], reads |-> 0]

Init ==
    /\ file \in Files
    /\ cache = <<>>
    /\ reads = 0
    /\ read_table = <<>>
    /\ disk_at_load = <<>>
    /\ status = "init"
    /\ df = <<>>
    /\ content_type = {}
    /\ year_range = NoRange
    /\ country_selected = {}
    /\ top_country_list = <<>>
    /\ filtered_df = <<>>
    /\ kpi = NoKpi
    /\ type_counts = <<>>
    /\ growth = <<>>
    /\ top_countries = <<>>
    /\ top_genres = <<>>
    /\ rating_counts = <<>>

\* the run stops with an exception: nothing after the failing line is set
Stopped(exception, listed) ==
    /\ status' = exception
    /\ year_range' = NoRange
    /\ country_selected' = {}
    /\ top_country_list' = listed
    /\ filtered_df' = <<>>
    /\ kpi' = NoKpi
    /\ type_counts' = <<>>
    /\ growth' = <<>>
    /\ top_countries' = <<>>
    /\ top_genres' = <<>>
    /\ rating_counts' = <<>>

\* lines 66-147 for the widget values ct, yr, cs
FilterAndAggregate(d, ct, yr, cs) ==
    LET f == FilteredDf(d, ct, yr, cs)
    IN  /\ filtered_df' = f
        /\ kpi' = Kpi(f)
        /\ type_counts' = TypeCounts(f)
        /\ growth' = Growth(f)
        /\ top_countries' = TopCountries(f)
        /\ top_genres' = TopGenres(f)
        /\ rating_counts' = RatingCounts(f)

(***************************************************************************)
(* One run of the script.  A widget returns the value the user set when    *)
(* that value is among its options, and its default otherwise; defaults    *)
(* says that the session is new.  For a slider whose min_value and         *)
(* max_value coincide Streamlit either raises or returns the value.        *)
(***************************************************************************)
Run(defaults, want_ct, want_yr, want_cs) ==
    LET res == CachedLoadData(cache, file)
        d == res.value
    IN  /\ cache' = res.cache
        /\ reads' = reads + res.reads
        /\ read_table' = IF res.reads = 1 THEN file ELSE read_table
        /\ disk_at_load' = file
        /\ df' = d
        /\ UNCHANGED file
        /\ LET ct == IF ~defaults /\ want_ct \subseteq TypeOptions(d)
                     THEN want_ct ELSE TypeOptions(d)
           IN  /\ content_type' = ct
               /\ IF d = <<>>
                  THEN Stopped("ValueError", <<>>)
                  ELSE LET slider == YearSlider(d)
                           yr == IF /\ ~defaults
                                    /\ slider.min_value <= want_yr[1]
                                    /\ want_yr[1] <= want_yr[2]
                                    /\ want_yr[2] <= slider.max_value
                                 THEN want_yr ELSE slider.value
                           listed == TopCountryList(d)
                           cs == IF ~defaults /\ want_cs \subseteq Range(listed)
                                 THEN want_cs ELSE {}
                       IN  \/ /\ slider.min_value = slider.max_value
                              /\ Stopped("StreamlitAPIException", <<>>)
                           \/ /\ status' = "ok"
                              /\ year_range' = yr
                              /\ top_country_list' = listed
                              /\ country_selected' = cs
                              /\ FilterAndAggregate(d, ct, yr, cs)

\* a browser opens the page: the first run of a session
Start == Run(TRUE, {}, NoRange, {})

\* the user adds or removes one content type
ToggleContentType ==
    /\ status = "ok"
    /\ \E t \in TypeOptions(df) :
          Run(FALSE,
              IF t \in content_type THEN content_type \ {t}
              ELSE content_type \cup {t},
              year_range, country_selected)

\* the user drags one handle of the year slider
MoveYearSlider ==
    /\ status = "ok"
    /\ \E y \in YearSlider(df).min_value..YearSlider(df).max_value :
          \/ /\ y <= year_range[2] /\ y # year_range[1]
             /\ Run(FALSE, content_type, <<y, year_range[2]>>, country_selected)
          \/ /\ year_range[1] <= y /\ y # year_range[2]
             /\ Run(FALSE, content_type, <<year_range[1], y>>, country_selected)

\* the user adds or removes one country
ToggleCountry ==
    /\ status = "ok"
    /\ \E c \in Range(top_country_list) \cap Pickable :
          Run(FALSE, content_type, year_range,
              IF c \in country_selected THEN country_selected \ {c}
              ELSE country_selected \cup {c})

\* netflix_titles.csv is replaced on disk by a file without rows
ModifyFile ==
    /\ status # "init"
    /\ file # <<>>
    /\ file' = <<>>
    /\ UNCHANGED <<cache, reads, read_table, disk_at_load, status, df,
                   widgets, views>>

Next ==
    \/ Start
    \/ ToggleContentType
    \/ MoveYearSlider
    \/ ToggleCountry
    \/ ModifyFile

Spec == Init /\ [][Next]_vars

(***************************************************************************)
(* The filter of lines 66-76 as a function of its inputs: the dataset of   *)
(* any file and any content types, year bounds and countries, among them   *)
(* selections the widgets never return.                                    *)
(***************************************************************************)
TypeInputs == {Movie, TVShow, <<"Documentary">>}
YearInputs == {2014, 2016}
CountryInputs == {<<"Canada">>}

InitApply ==
    /\ file \in Files
    /\ df = LoadDataBody(file)
    /\ cache = <<df>>
    /\ reads = 1
    /\ read_table = file
    /\ disk_at_load = file
    /\ status = "input"
    /\ content_type \in SUBSET TypeInputs
    /\ year_range \in YearInputs \X YearInputs
    /\ country_selected \in SUBSET CountryInputs
    /\ top_country_list = <<>>
    /\ filtered_df = <<>>
    /\ kpi = NoKpi
    /\ type_counts = <<>>
    /\ growth = <<>>
    /\ top_countries = <<>>
    /\ top_genres = <<>>
    /\ rating_counts = <<>>

Apply ==
    /\ status = "input"
    /\ status' = "ok"
    /\ FilterAndAggregate(df, content_type, year_range, country_selected)
    /\ UNCHANGED <<storage, df, widgets, top_country_list>>

NextApply == Apply

SpecApply == InitApply /\ [][NextApply]_vars

(***************************************************************************)
(* Properties.                                                             *)
(***************************************************************************)
\* the record passes the type and year filter of the current selection
Passes(r) ==
    /\ r.type \in content_type
    /\ year_range[1] <= r.year_added
    /\ r.year_added <= year_range[2]
\* the rows of the filtered set that come from the record
RowsOf(r) == {i \in 1..Len(filtered_df) : filtered_df[i].index = r.index}
NoDuplicates(s) == \A i, j \in 1..Len(s) : i # j => s[i] # s[j]
NonIncreasingCounts(entries) ==
    \A i \in 1..(Len(entries) - 1) : entries[i].count >= entries[i + 1].count

\* C1: with no country selected, the filtered set is exactly the loaded
\* records whose type is selected and whose year_added lies in the closed
\* year range, each once, and no row is exploded.
C1_NoCountryFilter ==
    (status = "ok" /\ country_selected = {}) =>
        /\ \A i \in 1..Len(filtered_df) :
              filtered_df[i] \in Range(df) /\ Passes(filtered_df[i])
        /\ \A r \in Range(df) :
              Passes(r) => Cardinality({i \in 1..Len(filtered_df) :
                                           filtered_df[i] = r}) = 1
C1_Witness ==
    /\ status = "ok"
    /\ country_selected = {}
    /\ \E r, q \in Range(df) :
          /\ Passes(r)
          /\ r.year_added = year_range[1]
          /\ q.type \in content_type
          /\ ~Passes(q)

\* C2: with countries selected, the filtered set has one row per record
\* that passes the type and year filter and per token of its country (split
\* on ", ") that is selected: as many rows as the token occurs, none for a
\* token that is not selected, every row the record with the token added.
C2_CountryFilter ==
    (status = "ok" /\ country_selected # {}) =>
        /\ \A i \in 1..Len(filtered_df) :
              LET f == filtered_df[i]
              IN  /\ f.country_exploded \in country_selected
                  /\ \E r \in Range(df) :
                        /\ Passes(r)
                        /\ f.country_exploded \in Range(Split(r.country))
                        /\ f = [index |-> r.index, type |-> r.type,
                                date_added |-> r.date_added,
                                year_added |-> r.year_added,
                                country |-> r.country,
                                listed_in |-> r.listed_in,
                                rating |-> r.rating,
                                country_exploded |-> f.country_exploded]
        /\ \A r \in Range(df) : \A t \in Range(Split(r.country)) :
              Cardinality({i \in RowsOf(r) : filtered_df[i].country_exploded = t})
                  = IF Passes(r) /\ t \in country_selected
                    THEN CountOf(Split(r.country), t) ELSE 0
C2_Witness ==
    /\ status = "ok"
    /\ country_selected # {}
    /\ \E r \in Range(df) :
          /\ Passes(r)
          /\ Cardinality(RowsOf(r)) >= 2
          /\ \E t \in Range(Split(r.country)) : t \notin country_selected

\* the selection names a type the dataset does not have, or its year
\* bounds are inverted
InvalidSelection ==
    \/ ~(content_type \subseteq TypeOptions(df))
    \/ year_range[1] > year_range[2]

C4_LoadedDataset ==
    status # "init" =>
        /\ \A i \in 1..Len(read_table) :
              Cardinality({k \in 1..Len(df) : df[k].index = i - 1})
                  = IF ToDatetime(read_table[i].date_added) # NaT THEN 1 ELSE 0
        /\ \A k \in 1..Len(df) :
              /\ df[k].index + 1 \in 1..Len(read_table)
              /\ LET r == df[k]
                     src == read_table[r.index + 1]
                 IN  /\ r.type = src.type
                     /\ r.date_added # NaT
                     /\ r.date_added = ToDatetime(src.date_added)
                     /\ r.year_added \in YearNumbers
                     /\ r.year_added = r.date_added.year
                     /\ r.country # NaN /\ r.listed_in # NaN /\ r.rating # NaN
                     /\ r.country = IF src.country = NaN THEN Unknown
                                    ELSE src.country
                     /\ r.listed_in = IF src.listed_in = NaN THEN Unknown
                                      ELSE src.listed_in
                     /\ r.rating = IF src.rating = NaN THEN Unknown
                                   ELSE src.rating
C4_Witness ==
    /\ status # "init"
    /\ \E i \in 1..Len(read_table) :
          /\ read_table[i].date_added # NaN
          /\ \A k \in 1..Len(df) : df[k].index # i - 1
    /\ \E k \in 1..Len(df) :
          /\ read_table[df[k].index + 1].country = NaN
          /\ df[k].country = Unknown

\* the view is a top-n table of the tokens: at most n rows, none for
\* "Unknown", every row with the token's number of occurrences, and no
\* token left out occurs more often than a token kept
TopTable(view, tokens, n) ==
    /\ Len(view) <= n
    /\ \A i \in 1..Len(view) :
          /\ view[i].value # Unknown
          /\ view[i].count = CountOf(tokens, view[i].value)
          /\ view[i].count >= 1
    /\ \A t \in Range(tokens) \ ({Unknown} \cup Range(Values(view))) :
          \A i \in 1..Len(view) : view[i].count >= CountOf(tokens, t)
CountryTokens == ExplodeColumn(Countries(filtered_df))
GenreTokens == ExplodeColumn(ListedIns(filtered_df))

\* C5: the Top countries view has at most 10 rows and the Top genres view
\* at most 12, neither holds "Unknown", and every token kept occurs at
\* least as often as every token other than "Unknown" that is left out.
C5_TopViews ==
    status = "ok" =>
        /\ TopTable(top_countries, CountryTokens, 10)
        /\ TopTable(top_genres, GenreTokens, 12)
C5_Witness ==
    /\ status = "ok"
    /\ Len(top_countries) = 10
    /\ Len(top_genres) = 12
    /\ Unknown \in Range(CountryTokens)
    /\ Unknown \in Range(GenreTokens)
    /\ Range(CountryTokens) \ ({Unknown} \cup Range(Values(top_countries))) # {}
    /\ Range(GenreTokens) \ ({Unknown} \cup Range(Values(top_genres))) # {}

\* the view counts the rows of the filtered set per rating value
CountsRatings ==
    LET ratings == Ratings(filtered_df)
    IN  /\ Range(Values(rating_counts)) = Range(ratings)
        /\ NoDuplicates(Values(rating_counts))
        /\ \A i \in 1..Len(rating_counts) :
              rating_counts[i].count = CountOf(ratings, rating_counts[i].value)

\* C6 as stated: the Rating distribution view has one entry per rating
\* value with its number of filtered rows, in order of the first appearance
\* of the values in the filtered set.
C6_RatingsFirstSeen ==
    status = "ok" =>
        /\ CountsRatings
        /\ Values(rating_counts) = Unique(Ratings(filtered_df))
\* C6 amended: the Rating distribution view has one entry per rating value
\* with its number of filtered rows, in descending order of that number.
C6_RatingsByCount ==
    status = "ok" => CountsRatings /\ NonIncreasingCounts(rating_counts)
C6_Witness ==
    /\ status = "ok"
    /\ Len(rating_counts) >= 2
    /\ rating_counts[1].count > rating_counts[2].count
    /\ Values(rating_counts) # Unique(Ratings(filtered_df))

\* C7: the country option list is the 30 most frequent country tokens of
\* the dataset in descending order of frequency, followed by "Unknown" when
\* it is not among them: "Unknown" is in the list once, no entry is
\* repeated, and the list has at most 31 entries.
C7_CountryOptions ==
    status = "ok" =>
        LET tokens == ExplodeColumn(Countries(df))
            n == Min2(30, Cardinality(Range(tokens)))
            top == SubSeq(top_country_list, 1, Min2(n, Len(top_country_list)))
        IN  /\ Len(top) = n
            /\ Range(top) \subseteq Range(tokens)
            /\ NoDuplicates(top)
            /\ \A i \in 1..(n - 1) :
                  CountOf(tokens, top[i]) >= CountOf(tokens, top[i + 1])
            /\ \A t \in Range(tokens) \ Range(top) :
                  CountOf(tokens, top[n]) >= CountOf(tokens, t)
            /\ top_country_list = IF Unknown \in Range(top) THEN top
                                  ELSE Append(top, Unknown)
            /\ Cardinality({i \in 1..Len(top_country_list) :
                               top_country_list[i] = Unknown}) = 1
            /\ NoDuplicates(top_country_list)
            /\ Len(top_country_list) <= 31
C7_Witness ==
    /\ status = "ok"
    /\ Len(top_country_list) = 31
    /\ top_country_list[31] = Unknown
    /\ LET tokens == ExplodeColumn(Countries(df))
       IN  /\ Range(tokens) \ Range(top_country_list) # {}
           /\ CountOf(tokens, top_country_list[1])
                  > CountOf(tokens, top_country_list[30])

\* C8: with no content type selected, whatever the year range and the
\* countries, the run that filters ends normally with a filtered set of no
\* rows, the KPI total, Movies and TV Shows counts 0 and an empty Yearly
\* growth view.
C8_EmptyContentTypes ==
    (status = "ok" /\ content_type = {}) =>
        /\ filtered_df = <<>>
        /\ kpi.total = 0 /\ kpi.movies = 0 /\ kpi.tv_shows = 0
        /\ growth = <<>>
C8_Witness ==
    /\ status = "ok"
    /\ content_type = {}
    /\ TypeOptions(df) # {}
    /\ country_selected # {}
    /\ year_range[1] < year_range[2]

\* C9: the file is read at most once; every call of load_data after the
\* first returns the cached dataset without reading, so every run sees the
\* dataset of the first load.
C9_LoadedOnce ==
    /\ [](reads <= 1)
    /\ [][status # "init" => (reads' = reads /\ df' = df /\ cache' = cache)]_vars
C9_Witness ==
    /\ status # "init"
    /\ reads = 1
    /\ disk_at_load # read_table
    /\ df = LoadDataBody(read_table)
    /\ df # LoadDataBody(disk_at_load)

\* C10: every year range used to filter has bounds low <= high that lie
\* within the least and the greatest year_added of the dataset, also when
\* the greatest year_added is below 2015.
C10_YearRangeWithinData ==
    status = "ok" =>
        /\ year_range[1] <= year_range[2]
        /\ MinYear(df) <= year_range[1]
        /\ year_range[2] <= MaxYear(df)
=============================================================================
